---- MODULE Spec2Model ----
(***************************************************************************)
(* Model of bin/farmer.js: the telemetry loop (report / send), the         *)
(* bandwidth cache file, the recursive directory measurement               *)
(* (getDirectorySize) and the startup path (start.open).                   *)
(***************************************************************************)
EXTENDS Integers, Sequences, FiniteSets, TLC

\* ------------------------------------------------------------------ bounds
MaxTicks == 3
MaxLen == 2

\* ------------------------------------------------------- program constants
hours25 == 60 * 60 * 25 * 1000
interval == 5 * (60 * 1000)

\* ------------------------------------------------------------- environment
\* Wall clock (ms).  The process starts at T0; the clock only moves forward
\* through the instants below, chosen around the 5 minute and 25 hour marks.
T0 == 2 * hours25
Instants ==
  { T0 + d : d \in { 0, 1, interval, interval + 1,
                     hours25 - 1, hours25, hours25 + 1,
                     hours25 + interval } }

\* Content of the file at SPEEDTEST_RESULT_PATH.
NoFile == [kind |-> "none", upload |-> 0, download |-> 0, timestamp |-> 0]
EmptyFile == [kind |-> "empty", upload |-> 0, download |-> 0, timestamp |-> 0]
GarbageFile == [kind |-> "garbage", upload |-> 0, download |-> 0, timestamp |-> 0]
Sample(u, d, ts) == [kind |-> "sample", upload |-> u, download |-> d, timestamp |-> ts]

\* Cache files a previous run of the program may have left behind.
InitialCaches ==
  { NoFile, EmptyFile, GarbageFile }
    \cup { Sample(100, 200, T0 - age) :
             age \in { 0, hours25 - 1, hours25, hours25 + 1 } }

\* Results the speed-test transport may deliver.
SpeedResults == { [upload |-> 300, download |-> 400] }

\* --------------------------------------------------------------- file tree
\* The data directory: node 1 is config.storage.path.
\*        1 --+-- 2
\*            +-- 3 --+-- 4
\*                    +-- 5
Nodes == 1 .. 5
Root == 1
List(n) == IF n = 1 THEN <<2, 3>> ELSE IF n = 3 THEN <<4, 5>> ELSE <<>>
StatSize(n) ==
  IF n = 1 THEN 1000 ELSE IF n = 2 THEN 100 ELSE IF n = 3 THEN 2000
  ELSE IF n = 4 THEN 250 ELSE 4096

\* A tree: per node whether it is a directory, whether fs.stat fails on it
\* and whether fs.readdir fails on it.
Tree(dirs, statErrs, readdirErrs) ==
  [n \in Nodes |-> [isDir |-> n \in dirs,
                    statErr |-> n \in statErrs,
                    readdirErr |-> n \in readdirErrs]]

\* Data directories the ticks are run against.
Trees ==
  { Tree({1, 3}, {}, {}),        \* everything readable
    Tree({1, 3}, {1}, {}),       \* the data directory does not exist
    Tree({3}, {}, {}),           \* the data directory path is a regular file
    Tree({1, 3}, {}, {1}),       \* the data directory cannot be listed
    Tree({1, 3}, {}, {3}),       \* a subdirectory cannot be listed
    Tree({1, 3}, {4}, {}) }      \* a nested entry cannot be stat-ed

\* ------------------------------------------------------- getDirectorySize
\* Result of getDirectorySize(n, callback) as the pair handed to callback:
\* err (an error was passed) and size.  A lone callback(err) passes no size;
\* the caller's total then is not a number, which the model writes as -1.
NaN == 0 - 1
Plus(a, b) == IF a = NaN \/ b = NaN THEN NaN ELSE a + b

RECURSIVE SumSizes(_, _, _)
SumSizes(f, list, total) ==
  IF list = <<>> THEN total
  ELSE SumSizes(f, Tail(list), Plus(total, f[Head(list)].size))

RECURSIVE getDirectorySize(_, _)
getDirectorySize(tree, n) ==
  IF tree[n].statErr \/ ~tree[n].isDir
  THEN [err |-> tree[n].statErr, size |-> 0]
  ELSE IF tree[n].readdirErr
  THEN [err |-> TRUE, size |-> NaN]
  ELSE LET sub == [c \in { List(n)[k] : k \in 1 .. Len(List(n)) } |->
                     getDirectorySize(tree, c)]
       IN [err |-> \E c \in DOMAIN sub : sub[c].err,
           size |-> SumSizes(sub, List(n), StatSize(n))]

\* What the spec calls the total size of the tree: every regular file and
\* every directory that can be reached.
RECURSIVE TreeBytes(_, _)
TreeBytes(tree, n) ==
  IF tree[n].statErr THEN 0
  ELSE IF ~tree[n].isDir THEN StatSize(n)
  ELSE IF tree[n].readdirErr THEN StatSize(n)
  ELSE LET sub == [c \in { List(n)[k] : k \in 1 .. Len(List(n)) } |->
                     [size |-> TreeBytes(tree, c)]]
       IN SumSizes(sub, List(n), StatSize(n))

\* ------------------------------------------------------------------ state
VARIABLES
  pc,        \* "init", "running", "exited" (process.exit), "crashed" (uncaught throw)
  now,       \* wall clock, ms
  cache,     \* content of the file at SPEEDTEST_RESULT_PATH
  fs,        \* the tree under config.storage.path
  config,    \* [telemetry, size, unit]: the parsed config.json
  passwdOK,  \* whether decrypt(passwd, privkey) succeeds
  join,      \* farmer.join: "none", "pending", "done"
  ticks,     \* one record per call of report(), in call order
  timers,    \* pending setTimeout callbacks: [by, fireAt]
  call,      \* one measurement step by step: per node, its getDirectorySize call
  vault      \* one key kept at rest: password, plaintext, blob, what decrypt gave

vars == <<pc, now, cache, fs, config, passwdOK, join, ticks, timers, call, vault>>

\* The call of getDirectorySize on one node: where it stands, its var total,
\* the async.each it runs (children still out, final callback already made),
\* and what its callback was handed, how many times.
\* Strings are sequences of UTF-16 code units, buffers sequences of bytes.
NoVault ==
  [pc |-> "idle", password |-> <<>>, plain |-> <<>>, blob |-> <<>>,
   with |-> <<>>, threw |-> FALSE, out |-> <<>>]

NoCall ==
  [st |-> "idle", total |-> 0, out |-> 0, fired |-> FALSE,
   cbs |-> 0, err |-> FALSE, size |-> 0]

\* A byte count n * 1024^e, kept as the pair: 1024^4 is beyond the range of
\* the model's integers, while the program's numbers hold it exactly.
Scaled(n, e) == [n |-> n, e |-> e]

NoReport ==
  [used |-> NaN, free |-> Scaled(0, 0), upload |-> 0, download |-> 0]

\* config.storage as the setup wizard writes it: a size and MB, GB or TB.
Capacities ==
  { [size |-> 50, unit |-> "MB"],
    [size |-> 2, unit |-> "GB"],
    [size |-> 1, unit |-> "TB"] }

Configs ==
  { [telemetry |-> t, size |-> c.size, unit |-> c.unit] :
      t \in BOOLEAN, c \in Capacities }

\* var totalSpace after the switch on config.storage.unit.
totalSpace(cfg) ==
  CASE cfg.unit = "MB" -> Scaled(cfg.size, 2)
    [] cfg.unit = "GB" -> Scaled(cfg.size, 3)
    [] cfg.unit = "TB" -> Scaled(cfg.size, 4)
    [] OTHER -> Scaled(cfg.size, 0)

Init ==
  /\ pc = "init"
  /\ now = T0
  /\ cache \in InitialCaches
  /\ fs \in Trees
  /\ config \in Configs
  /\ passwdOK \in BOOLEAN
  /\ join = "none"
  /\ ticks = <<>>
  /\ timers = {}
  /\ call = [n \in Nodes |-> NoCall]
  /\ vault = NoVault

\* ----------------------------------------------------------------- report
\* The locals of one call of report(), plus what the call has done so far.
NewTick(t, c) ==
  [ start     |-> t,          \* new Date() when report() was entered
    cache0    |-> c,          \* the cache file as report() read it
    bandwidth |-> c,          \* var bandwidth
    needstest |-> FALSE,      \* var needstest
    threw     |-> FALSE,      \* JSON.parse threw
    test      |-> "none",     \* speed test: "none", "inflight", "ok", "err"
    tests     |-> 0,          \* calls of SpeedTest(...).test
    cache1    |-> c,          \* the cache file when the test callback returned
    wrote     |-> FALSE,      \* this call wrote the cache file
    walk      |-> "none",     \* getDirectorySize: "none", "inflight", "ok", "err"
    walks     |-> 0,          \* calls of getDirectorySize(config.storage.path)
    send      |-> "none",     \* reporter.send: "none", "inflight", "ok", "err"
    sends     |-> 0,          \* calls of reporter.send
    report    |-> NoReport,   \* the report handed to reporter.send
    logs      |-> <<>>,       \* types of the lines written to stdout
    scheduled |-> 0 ]         \* calls of setTimeout

\* needstest with the comparison written >= (25 hours exactly already stale).
needstest_ge(c, t) ==
  \/ c.kind \in {"none", "empty"}
  \/ c.kind = "sample" /\ (t - c.timestamp) >= hours25

\* needstest that only looks for a missing sample and never at its age.
needstest_noage(c, t) == c.kind \in {"none", "empty"}

\* if (!bandwidth) ... else if ((new Date() - new Date(bandwidth.timestamp)) > hours25)
needstest(c, t) ==
  \/ c.kind \in {"none", "empty"}
  \/ c.kind = "sample" /\ (t - c.timestamp) > hours25

\* JSON.parse(bandwidth) throws on a file that is not JSON.
parseThrows(c) == c.kind = "garbage"

\* send(): starts the measurement, then sets the timer of the next tick.
send(r) ==
  [r EXCEPT !.walk = "inflight", !.walks = @ + 1, !.scheduled = @ + 1]

sendTimers(r, i, t) ==
  { [by |-> i, fireAt |-> t + interval] }

\* report() that calls send() without waiting for the speed test it started.
reportBody_eager(r) ==
  IF parseThrows(r.cache0) THEN [r EXCEPT !.threw = TRUE]
  ELSE IF needstest(r.cache0, r.start)
  THEN send([r EXCEPT !.needstest = TRUE, !.test = "inflight", !.tests = @ + 1])
  ELSE send(r)

\* report() that runs the speed test on every tick, whatever the cache says.
reportBody_alwaystest(r) ==
  IF parseThrows(r.cache0) THEN [r EXCEPT !.threw = TRUE]
  ELSE [r EXCEPT !.needstest = TRUE, !.test = "inflight", !.tests = @ + 1]

\* The body of report() up to its first asynchronous call.
reportBody(r) ==
  IF parseThrows(r.cache0) THEN [r EXCEPT !.threw = TRUE]
  ELSE IF needstest(r.cache0, r.start)
  THEN [r EXCEPT !.needstest = TRUE, !.test = "inflight", !.tests = @ + 1]
  ELSE send(r)

\* A call of report() with `pending` the timers left pending at the call.
Report(pending) ==
  LET i == Len(ticks) + 1
      r == reportBody(NewTick(now, cache))
  IN /\ ticks' = Append(ticks, r)
     /\ timers' = pending \cup (IF r.scheduled > 0 THEN sendTimers(r, i, now) ELSE {})
     /\ pc' = IF r.threw THEN "crashed" ELSE "running"

\* open without process.exit() in its catch: it goes on after a failed decrypt.
Open_noexit ==
  /\ pc = "init"
  /\ join' = "pending"
  /\ IF config.telemetry
     THEN Report(timers)
     ELSE /\ pc' = "running"
          /\ UNCHANGED <<ticks, timers>>
  /\ UNCHANGED <<now, cache, fs, config, passwdOK, call, vault>>

\* open that starts reporting without looking at config.telemetry.enabled.
Open_alwaysreport ==
  /\ pc = "init"
  /\ IF ~passwdOK
     THEN /\ pc' = "exited"
          /\ UNCHANGED <<join, ticks, timers>>
     ELSE /\ join' = "pending"
          /\ Report(timers)
  /\ UNCHANGED <<now, cache, fs, config, passwdOK, call, vault>>

\* start.open: decrypt the key (exit on failure), join the network, and start
\* reporting when telemetry is enabled.
Open ==
  /\ pc = "init"
  /\ IF ~passwdOK
     THEN /\ pc' = "exited"
          /\ UNCHANGED <<join, ticks, timers>>
     ELSE /\ join' = "pending"
          /\ IF config.telemetry
             THEN Report(timers)
             ELSE /\ pc' = "running"
                  /\ UNCHANGED <<ticks, timers>>
  /\ UNCHANGED <<now, cache, fs, config, passwdOK, call, vault>>

\* The callback of farmer.join: process.exit() on error.
JoinDone(err) ==
  /\ pc = "running"
  /\ join = "pending"
  /\ IF err THEN pc' = "exited" /\ UNCHANGED join
            ELSE join' = "done" /\ UNCHANGED pc
  /\ UNCHANGED <<now, cache, fs, config, passwdOK, ticks, timers, call, vault>>

\* The clock moves on.
Advance(t) ==
  /\ pc = "running"
  /\ t > now
  /\ now' = t
  /\ UNCHANGED <<pc, cache, fs, config, passwdOK, join, ticks, timers, call, vault>>

\* A timer that stays armed after firing (setInterval instead of setTimeout).
TimerFire_repeat(tm) ==
  /\ pc = "running"
  /\ tm \in timers
  /\ now >= tm.fireAt
  /\ Len(ticks) < MaxTicks
  /\ Report(timers)
  /\ UNCHANGED <<now, cache, fs, config, passwdOK, join, call, vault>>

\* A timer set by send() fires: the next call of report().
TimerFire(tm) ==
  /\ pc = "running"
  /\ tm \in timers
  /\ now >= tm.fireAt
  /\ Len(ticks) < MaxTicks
  /\ Report(timers \ {tm})
  /\ UNCHANGED <<now, cache, fs, config, passwdOK, join, call, vault>>

\* The test callback without fs.writeFileSync: the new sample is reported
\* but never reaches the cache file.
onSpeedTest_nowrite(r, err, result, t) ==
  IF err
  THEN [r EXCEPT !.test = "err", !.logs = Append(@, "error")]
  ELSE send([r EXCEPT !.test = "ok",
                      !.bandwidth = Sample(result.upload, result.download, t)])

\* The test callback without its early return on err.
onSpeedTest_noreturn(r, err, result, t) ==
  send([r EXCEPT !.test = IF err THEN "err" ELSE "ok",
                 !.logs = IF err THEN Append(@, "error") ELSE @,
                 !.bandwidth = Sample(result.upload, result.download, t),
                 !.wrote = TRUE])

\* The callback of SpeedTest(...).test of tick i.
onSpeedTest(r, err, result, t) ==
  IF err
  THEN [r EXCEPT !.test = "err", !.logs = Append(@, "error")]
  ELSE send([r EXCEPT !.test = "ok",
                      !.bandwidth = Sample(result.upload, result.download, t),
                      !.wrote = TRUE])

SpeedTestDone(i, err, result) ==
  /\ pc = "running"
  /\ i \in DOMAIN ticks
  /\ ticks[i].test = "inflight"
  /\ LET r == onSpeedTest(ticks[i], err, result, now)
         file == IF r.wrote THEN r.bandwidth ELSE cache
     IN /\ cache' = file
        /\ ticks' = [ticks EXCEPT ![i] = [r EXCEPT !.cache1 = file]]
        /\ timers' = timers \cup
                       (IF r.scheduled > 0 THEN sendTimers(r, i, now) ELSE {})
  /\ UNCHANGED <<pc, now, fs, config, passwdOK, join, call, vault>>

\* The callback send() gives to getDirectorySize, for tick i.  totalSpace is
\* computed and then not used: storage.free is config.storage.size itself.
onSize(r, res, cfg) ==
  IF res.err
  THEN [r EXCEPT !.walk = "err"]
  ELSE [r EXCEPT !.walk = "ok",
                 !.report = [used |-> res.size,
                             free |-> Scaled(cfg.size, 0),
                             upload |-> IF r.bandwidth.kind = "sample"
                                        THEN r.bandwidth.upload ELSE 0,
                             download |-> IF r.bandwidth.kind = "sample"
                                          THEN r.bandwidth.download ELSE 0],
                 !.send = "inflight",
                 !.sends = @ + 1]

WalkDone(i) ==
  /\ pc = "running"
  /\ i \in DOMAIN ticks
  /\ ticks[i].walk = "inflight"
  /\ ticks' = [ticks EXCEPT
                 ![i] = onSize(@, getDirectorySize(fs, Root), config)]
  /\ UNCHANGED <<pc, now, cache, fs, config, passwdOK, join, timers, call, vault>>

\* The callback of reporter.send of tick i: one log line, info or error.
onSent(r, err) ==
  [r EXCEPT !.send = IF err THEN "err" ELSE "ok",
            !.logs = Append(@, IF err THEN "error" ELSE "info")]

SendDone(i, err) ==
  /\ pc = "running"
  /\ i \in DOMAIN ticks
  /\ ticks[i].send = "inflight"
  /\ ticks' = [ticks EXCEPT ![i] = onSent(@, err)]
  /\ UNCHANGED <<pc, now, cache, fs, config, passwdOK, join, timers, call, vault>>

Next ==
  \/ Open
  \/ \E err \in BOOLEAN : JoinDone(err)
  \/ \E t \in Instants : Advance(t)
  \/ \E tm \in timers : TimerFire(tm)
  \/ \E i \in 1 .. MaxTicks, err \in BOOLEAN, result \in SpeedResults :
       SpeedTestDone(i, err, result)
  \/ \E i \in 1 .. MaxTicks : WalkDone(i)
  \/ \E i \in 1 .. MaxTicks, err \in BOOLEAN : SendDone(i, err)

Spec == Init /\ [][Next]_vars

TypeOK ==
  /\ pc \in {"init", "running", "exited", "crashed"}
  /\ now \in Instants
  /\ Len(ticks) <= MaxTicks

\* ------------------------------------------- getDirectorySize, step by step
\* One measurement of the data directory, with fs.stat, fs.readdir and the
\* callbacks of the children interleaving as the event loop allows.
Parent(n) == IF n \in {2, 3} THEN 1 ELSE 3

\* Trees the measurement is run on.
WalkTrees ==
  { Tree(dirs, statErrs, readdirErrs) :
      dirs \in { {1, 3}, {3}, {1}, {1, 2, 3}, {1, 3, 4} },
      statErrs \in SUBSET Nodes,
      readdirErrs \in SUBSET {1, 3} }

\* callback with an async.each that calls done on every error and again at
\* the end, instead of once.
RECURSIVE callback_everyerr(_, _, _, _)
callback_everyerr(c, n, err, size) ==
  LET c1 == [c EXCEPT ![n].cbs = @ + 1, ![n].err = err, ![n].size = size]
  IN IF n = Root THEN c1
     ELSE LET p == Parent(n)
              c2 == [c1 EXCEPT ![p].total = Plus(@, size), ![p].out = @ - 1]
          IN IF err \/ c2[p].out = 0
             THEN callback_everyerr([c2 EXCEPT ![p].fired = TRUE], p, err,
                                    c2[p].total)
             ELSE c2

\* callback(err, size) of the call on node n.  For a child this is the
\* function given at line 165: total = total + size; next(err); and next is
\* async.each's, which makes the final callback (done) once: on the first
\* error, or when the last child has called back.
RECURSIVE callback(_, _, _, _)
callback(c, n, err, size) ==
  LET c1 == [c EXCEPT ![n].cbs = @ + 1, ![n].err = err, ![n].size = size]
  IN IF n = Root THEN c1
     ELSE LET p == Parent(n)
              c2 == [c1 EXCEPT ![p].total = Plus(@, size), ![p].out = @ - 1]
          IN IF c2[p].fired THEN c2
             ELSE IF err \/ c2[p].out = 0
             THEN callback([c2 EXCEPT ![p].fired = TRUE], p, err, c2[p].total)
             ELSE c2

InitWalk ==
  /\ pc = "init"
  /\ now = T0
  /\ cache = NoFile
  /\ fs \in WalkTrees
  /\ config \in Configs
  /\ passwdOK = TRUE
  /\ join = "none"
  /\ ticks = <<>>
  /\ timers = {}
  /\ call = [n \in Nodes |-> NoCall]
  /\ vault = NoVault

\* getDirectorySize(config.storage.path, ...) is called: fs.stat goes out.
WalkStart ==
  /\ call[Root].st = "idle"
  /\ call' = [call EXCEPT ![Root].st = "stat"]
  /\ UNCHANGED <<pc, now, cache, fs, config, passwdOK, join, ticks, timers, vault>>

\* The callback of fs.stat on node n.
StatDone(n) ==
  /\ call[n].st = "stat"
  /\ IF fs[n].statErr \/ ~fs[n].isDir
     THEN call' = callback([call EXCEPT ![n].st = "returned"], n, fs[n].statErr, 0)
     ELSE call' = [call EXCEPT ![n].st = "readdir", ![n].total = StatSize(n)]
  /\ UNCHANGED <<pc, now, cache, fs, config, passwdOK, join, ticks, timers, vault>>

\* The callback of fs.readdir on node n: callback(err) alone on an error,
\* else async.each over the list, which calls getDirectorySize on every
\* entry at once (and calls done at once on an empty list).
ReaddirDone(n) ==
  /\ call[n].st = "readdir"
  /\ IF fs[n].readdirErr
     THEN call' = callback([call EXCEPT ![n].st = "returned"], n, TRUE, NaN)
     ELSE IF List(n) = <<>>
     THEN call' = callback([call EXCEPT ![n].st = "each", ![n].fired = TRUE],
                           n, FALSE, call[n].total)
     ELSE call' = [m \in Nodes |->
                     IF m = n
                     THEN [call[m] EXCEPT !.st = "each", !.out = Len(List(n))]
                     ELSE IF \E k \in 1 .. Len(List(n)) : List(n)[k] = m
                     THEN [call[m] EXCEPT !.st = "stat"]
                     ELSE call[m]]
  /\ UNCHANGED <<pc, now, cache, fs, config, passwdOK, join, ticks, timers, vault>>

NextWalk ==
  \/ WalkStart
  \/ \E n \in Nodes : StatDone(n)
  \/ \E n \in Nodes : ReaddirDone(n)

SpecWalk == InitWalk /\ [][NextWalk]_vars

\* No fs.stat or fs.readdir of the measurement is outstanding any more.
WalkQuiet ==
  /\ call[Root].st # "idle"
  /\ \A n \in Nodes : call[n].st \notin {"stat", "readdir"}

\* The measurement as the ticks use it (getDirectorySize above) is what the
\* step-by-step measurement hands its caller: the same err, and without err
\* the same size.
WalkAgrees ==
  call[Root].cbs > 0 =>
    /\ call[Root].err = getDirectorySize(fs, Root).err
    /\ ~call[Root].err => call[Root].size = getDirectorySize(fs, Root).size

\* ------------------------------------------------------ encrypt / decrypt
\* Buffer(str, 'utf8'): the UTF-8 bytes of a string.  A surrogate pair is one
\* code point of four bytes; a surrogate without its partner is written as
\* U+FFFD (EF BF BD).
BlockSize == 16
IsHigh(u) == u >= 55296 /\ u <= 56319
IsLow(u) == u >= 56320 /\ u <= 57343
IsCont(b) == b >= 128 /\ b <= 191

RECURSIVE Utf8Encode(_)
Utf8Encode(str) ==
  IF str = <<>> THEN <<>>
  ELSE LET u == Head(str)
       IN IF u < 128 THEN <<u>> \o Utf8Encode(Tail(str))
          ELSE IF u < 2048
          THEN <<192 + (u \div 64), 128 + (u % 64)>> \o Utf8Encode(Tail(str))
          ELSE IF IsHigh(u) /\ Len(str) >= 2 /\ IsLow(str[2])
          THEN LET cp == 65536 + (u - 55296) * 1024 + (str[2] - 56320)
               IN <<240 + (cp \div 262144), 128 + ((cp \div 4096) % 64),
                    128 + ((cp \div 64) % 64), 128 + (cp % 64)>>
                    \o Utf8Encode(Tail(Tail(str)))
          ELSE IF IsHigh(u) \/ IsLow(u)
          THEN <<239, 191, 189>> \o Utf8Encode(Tail(str))
          ELSE <<224 + (u \div 4096), 128 + ((u \div 64) % 64), 128 + (u % 64)>>
                 \o Utf8Encode(Tail(str))

\* buf.toString('utf8'): the string of a UTF-8 buffer; a byte that starts no
\* valid sequence becomes U+FFFD.
RECURSIVE Utf8Decode(_)
Utf8Decode(buf) ==
  IF buf = <<>> THEN <<>>
  ELSE LET b == Head(buf)
           n == Len(buf)
       IN IF b < 128 THEN <<b>> \o Utf8Decode(Tail(buf))
          ELSE IF b >= 194 /\ b <= 223 /\ n >= 2 /\ IsCont(buf[2])
          THEN <<(b - 192) * 64 + (buf[2] - 128)>>
                 \o Utf8Decode(SubSeq(buf, 3, n))
          ELSE IF b >= 224 /\ b <= 239 /\ n >= 3 /\ IsCont(buf[2]) /\ IsCont(buf[3])
                  /\ (b - 224) * 4096 + (buf[2] - 128) * 64 + (buf[3] - 128) >= 2048
                  /\ ~IsHigh((b - 224) * 4096 + (buf[2] - 128) * 64 + (buf[3] - 128))
                  /\ ~IsLow((b - 224) * 4096 + (buf[2] - 128) * 64 + (buf[3] - 128))
          THEN <<(b - 224) * 4096 + (buf[2] - 128) * 64 + (buf[3] - 128)>>
                 \o Utf8Decode(SubSeq(buf, 4, n))
          ELSE IF b >= 240 /\ b <= 244 /\ n >= 4 /\ IsCont(buf[2]) /\ IsCont(buf[3])
                  /\ IsCont(buf[4])
                  /\ (b - 240) * 262144 + (buf[2] - 128) * 4096
                       + (buf[3] - 128) * 64 + (buf[4] - 128) >= 65536
                  /\ (b - 240) * 262144 + (buf[2] - 128) * 4096
                       + (buf[3] - 128) * 64 + (buf[4] - 128) <= 1114111
          THEN LET cp == (b - 240) * 262144 + (buf[2] - 128) * 4096
                           + (buf[3] - 128) * 64 + (buf[4] - 128) - 65536
               IN <<55296 + (cp \div 1024), 56320 + (cp % 1024)>>
                    \o Utf8Decode(SubSeq(buf, 5, n))
          ELSE <<65533>> \o Utf8Decode(Tail(buf))

\* bs58: a buffer as a number in base 58, most significant digit first, one
\* digit 0 (the letter '1') for every leading zero byte.  Digits are kept as
\* numbers 0..57.  MulAdd works on the little-endian digits of the number.
RECURSIVE MulAdd(_, _, _, _)
MulAdd(digits, factor, carry, base) ==
  IF digits = <<>>
  THEN IF carry = 0 THEN <<>>
       ELSE <<carry % base>> \o MulAdd(<<>>, factor, carry \div base, base)
  ELSE LET v == Head(digits) * factor + carry
       IN <<v % base>> \o MulAdd(Tail(digits), factor, v \div base, base)

RECURSIVE Rebase(_, _, _, _)
Rebase(src, from, to, acc) ==
  IF src = <<>> THEN acc
  ELSE Rebase(Tail(src), from, to, MulAdd(acc, from, Head(src), to))

RECURSIVE LeadingZeros(_)
LeadingZeros(src) ==
  IF src # <<>> /\ Head(src) = 0 THEN 1 + LeadingZeros(Tail(src)) ELSE 0

Reverse(q) == [k \in 1 .. Len(q) |-> q[Len(q) + 1 - k]]
Zeros(k) == [j \in 1 .. k |-> 0]

base58encode(buf) ==
  Zeros(LeadingZeros(buf)) \o Reverse(Rebase(buf, 256, 58, <<>>))

base58decode(str) ==
  Zeros(LeadingZeros(str)) \o Reverse(Rebase(str, 58, 256, <<>>))

\* crypto.createCipher('aes-256-cbc', password): key and IV are derived from
\* the password alone; the cipher is a keyed bijection on blocks of 16 bytes,
\* each block chained to the ciphertext block before it, with PKCS#7 padding.
\* The library's AES and MD5 are stood in for by addition modulo 256.
RECURSIVE SumBytes(_)
SumBytes(q) == IF q = <<>> THEN 0 ELSE Head(q) + SumBytes(Tail(q))
KeyByte(password) == (SumBytes(password) * 31 + 17) % 256
IvByte(password, j) == (SumBytes(password) * 7 + j) % 256

Pad(buf) ==
  LET k == BlockSize - (Len(buf) % BlockSize)
  IN buf \o [j \in 1 .. k |-> k]

RECURSIVE CbcEncrypt(_, _, _)
CbcEncrypt(password, padded, done) ==
  IF Len(done) = Len(padded) THEN done
  ELSE LET i == Len(done) + 1
           prev == IF i <= BlockSize THEN IvByte(password, i)
                   ELSE done[i - BlockSize]
       IN CbcEncrypt(password, padded,
                     Append(done, (padded[i] + prev + KeyByte(password)) % 256))

CbcDecrypt(password, buf) ==
  [i \in 1 .. Len(buf) |->
     (buf[i] + 512
        - (IF i <= BlockSize THEN IvByte(password, i) ELSE buf[i - BlockSize])
        - KeyByte(password)) % 256]

\* decipher.final() throws unless the last block ends in valid padding.
PadOk(plain) ==
  /\ Len(plain) > 0
  /\ Len(plain) % BlockSize = 0
  /\ LET k == plain[Len(plain)]
     IN /\ k >= 1 /\ k <= BlockSize
        /\ \A j \in (Len(plain) - k + 1) .. Len(plain) : plain[j] = k

\* aes256.update(...) gives the blocks that are complete and settled,
\* aes256.final() the last one.
CipherUpdate(password, bytes) ==
  LET c == CbcEncrypt(password, Pad(bytes), <<>>)
  IN SubSeq(c, 1, Len(c) - BlockSize)
CipherFinal(password, bytes) ==
  LET c == CbcEncrypt(password, Pad(bytes), <<>>)
  IN SubSeq(c, Len(c) - BlockSize + 1, Len(c))

DecipherUpdate(password, buf) ==
  LET q == CbcDecrypt(password, buf)
  IN SubSeq(q, 1, Len(q) - BlockSize)
DecipherFinal(password, buf) ==
  LET q == CbcDecrypt(password, buf)
  IN SubSeq(q, Len(q) - BlockSize + 1, Len(q) - q[Len(q)])

\* encrypt that forgets to copy the output of final() into the buffer.
encrypt_nofinal(password, str) ==
  base58encode(CipherUpdate(password, Utf8Encode(str)))

\* encrypt(password, str)
encrypt(password, str) ==
  LET a == CipherUpdate(password, Utf8Encode(str))
      b == CipherFinal(password, Utf8Encode(str))
  IN base58encode(a \o b)

\* decrypt(password, str): [threw, str]
decrypt(password, str) ==
  LET buf == base58decode(str)
  IN IF ~PadOk(CbcDecrypt(password, buf))
     THEN [threw |-> TRUE, str |-> <<>>]
     ELSE [threw |-> FALSE,
           str |-> Utf8Decode(DecipherUpdate(password, buf)
                                \o DecipherFinal(password, buf))]

\* The key at rest: setup writes encrypt(password, key) to config.keypath,
\* start.open reads it back with the password it is given.
Units == { 65, 233, 8364, 55357, 56832 }   \* A, e-acute, euro sign, D83D, DE00
LongKey == [j \in 1 .. 20 |-> 48 + (j % 10)]
Strings ==
  UNION { [1 .. k -> Units] : k \in 0 .. MaxLen } \cup { LongKey }
Passwords == { <<117, 112>>, <<112, 119>> }

InitVault ==
  /\ pc = "init"
  /\ now = T0
  /\ cache = NoFile
  /\ fs = Tree({1, 3}, {}, {})
  /\ config = [telemetry |-> FALSE, size |-> 2, unit |-> "GB"]
  /\ passwdOK = TRUE
  /\ join = "none"
  /\ ticks = <<>>
  /\ timers = {}
  /\ call = [n \in Nodes |-> NoCall]
  /\ \E P \in Passwords, S \in Strings :
       vault = [NoVault EXCEPT !.pc = "new", !.password = P, !.plain = S]

\* fs.writeFileSync(config.keypath, encrypt(result.password, key))
KeyWrite ==
  /\ vault.pc = "new"
  /\ vault' = [vault EXCEPT !.pc = "stored",
                            !.blob = encrypt(vault.password, vault.plain)]
  /\ UNCHANGED <<pc, now, cache, fs, config, passwdOK, join, ticks, timers, call>>

\* privkey = decrypt(passwd, privkey) in start.open, with password P.
KeyRead(P) ==
  /\ vault.pc = "stored"
  /\ LET r == decrypt(P, vault.blob)
     IN vault' = [vault EXCEPT !.pc = "opened", !.with = P,
                               !.threw = r.threw, !.out = r.str]
  /\ UNCHANGED <<pc, now, cache, fs, config, passwdOK, join, ticks, timers, call>>

NextVault ==
  \/ KeyWrite
  \/ \E P \in Passwords : KeyRead(P)

SpecVault == InitVault /\ [][NextVault]_vars

\* ------------------------------------------------------------- properties
Age(r) == r.start - r.cache0.timestamp
Over(r) ==
  r.test = "err" \/ r.walk = "err" \/ r.send \in {"ok", "err"}
InFlight(r) ==
  r.test = "inflight" \/ r.walk = "inflight" \/ r.send = "inflight"
StartedStale(r) ==
  r.cache0.kind \in {"none", "empty"}
    \/ (r.cache0.kind = "sample" /\ Age(r) > hours25)
StartedFresh(r) == r.cache0.kind = "sample" /\ Age(r) <= hours25
Readable(tree) ==
  \A n \in Nodes : ~tree[n].statErr /\ ~tree[n].readdirErr
RootListable(tree) ==
  ~tree[Root].statErr /\ tree[Root].isDir /\ ~tree[Root].readdirErr

\* C1: while the process lives, every tick that is over (sent, send failed,
\* measurement failed, speed test failed) has set the timer of the next tick.
C1_EveryOutcomeSchedules ==
  pc = "running" =>
    \A i \in DOMAIN ticks : Over(ticks[i]) => ticks[i].scheduled = 1

\* C2: a tick whose speed test failed has called the delivery transport zero
\* times, has not started the measurement, and left the cache file as it was
\* when the tick started.
C2_FailedTestIsolated ==
  \A i \in DOMAIN ticks :
    ticks[i].test = "err" =>
      /\ ticks[i].sends = 0 /\ ticks[i].send = "none"
      /\ ticks[i].walks = 0 /\ ticks[i].walk = "none"
      /\ ~ticks[i].wrote
      /\ ticks[i].cache1 = ticks[i].cache0

C2_Witness ==
  \E i \in DOMAIN ticks :
    /\ ticks[i].test = "err"
    /\ ticks[i].cache0.kind = "sample"
    /\ i > 1

\* C3: at any time at most one tick has work (speed test, walk, delivery)
\* in flight.
C3_OneTickInFlight ==
  Cardinality({ i \in DOMAIN ticks : InFlight(ticks[i]) }) <= 1

C5_ReportedSampleIsFresh ==
  \A i \in DOMAIN ticks :
    ticks[i].sends > 0 =>
      LET r == ticks[i]
          b == r.bandwidth
      IN /\ b.kind = "sample"
         /\ r.report.upload = b.upload
         /\ r.report.download = b.download
         /\ r.start - b.timestamp <= hours25
         /\ StartedStale(r) =>
              /\ r.tests = 1 /\ r.test = "ok"
              /\ b.timestamp >= r.start
              /\ [upload |-> r.report.upload, download |-> r.report.download]
                   \in SpeedResults
         /\ StartedFresh(r) => b = r.cache0

C5_Witness ==
  \E i \in DOMAIN ticks :
    /\ ticks[i].sends > 0
    /\ ticks[i].cache0.kind = "sample"
    /\ Age(ticks[i]) > hours25
    /\ i > 1

\* C6: within one tick the measurement starts only once freshness is
\* resolved (cache fresh, or this tick's speed test succeeded and its result
\* is in the cache file), never while the speed test is in flight, and the
\* delivery transport is called only after the measurement completed.
C6_StepsOrdered ==
  \A i \in DOMAIN ticks :
    LET r == ticks[i]
    IN /\ r.walks > 0 =>
            IF r.needstest
            THEN r.test = "ok" /\ r.wrote /\ r.cache1 = r.bandwidth
            ELSE r.test = "none" /\ StartedFresh(r)
       /\ r.test = "inflight" => r.walk = "none" /\ r.send = "none"
       /\ r.sends > 0 => r.walk = "ok"
       /\ r.walk = "inflight" => r.sends = 0

C6_Witness ==
  \E i \in DOMAIN ticks :
    ticks[i].needstest /\ ticks[i].send = "ok"

\* C7: a tick that starts with a fresh sample {u, d} and a readable data
\* directory of total size s runs no speed test and calls the delivery
\* transport exactly once, with upload = u, download = d, used = s, also
\* when that send fails.
C7_FreshTickReport ==
  \A i \in DOMAIN ticks :
    LET r == ticks[i]
    IN (StartedFresh(r) /\ Readable(fs) /\ fs[Root].isDir
          /\ r.send \in {"ok", "err"}) =>
         /\ r.tests = 0
         /\ r.sends = 1
         /\ r.report.upload = r.cache0.upload
         /\ r.report.download = r.cache0.download
         /\ r.report.used = TreeBytes(fs, Root)

\* C8: on a tree with every node readable, getDirectorySize hands its caller
\* the sum of the sizes of all regular files and of all directories of the
\* tree (files of 100, 250 and 4096 bytes contribute 4446).
C8_MeasureSumsFiles ==
  (Readable(fs) /\ fs[Root].isDir /\ call[Root].cbs > 0) =>
    /\ ~call[Root].err
    /\ call[Root].size = TreeBytes(fs, Root)

\* C9: with the data directory itself listable but a descendant that cannot
\* be stat-ed or listed, the measurement does not fail, and the tick hands
\* the delivery transport a report with the sum over the readable rest.
C9_DescendantSkipped ==
  \A i \in DOMAIN ticks :
    (RootListable(fs) /\ ~Readable(fs) /\ ticks[i].walk \notin {"none", "inflight"}) =>
      /\ ticks[i].walk = "ok"
      /\ ticks[i].sends = 1
      /\ ticks[i].report.used = TreeBytes(fs, Root)

\* C10: when the data directory does not exist or is itself inaccessible,
\* the measurement yields 0 without error and the tick calls the delivery
\* transport once with storage.used = 0.
C10_MissingRootReportsZero ==
  \A i \in DOMAIN ticks :
    ((fs[Root].statErr \/ (fs[Root].isDir /\ fs[Root].readdirErr))
       /\ ticks[i].walk \notin {"none", "inflight"}) =>
      /\ ticks[i].walk = "ok"
      /\ ticks[i].sends = 1
      /\ ticks[i].report.used = 0

\* C11: a tick that finds the cache file missing or not valid JSON runs a
\* speed test like a tick with no sample, and neither the tick nor the loop
\* is stopped by the unparsable file.
C11_UnparsableIsStale ==
  \A i \in DOMAIN ticks :
    ticks[i].cache0.kind \in {"none", "garbage"} =>
      /\ ticks[i].tests = 1
      /\ ~ticks[i].threw
      /\ pc # "crashed"

C13_NoSilentOutcome ==
  \A i \in DOMAIN ticks :
    /\ (ticks[i].test = "err" \/ ticks[i].walk = "err" \/ ticks[i].send = "err")
         => ticks[i].logs = <<"error">>
    /\ ticks[i].send = "ok" => ticks[i].logs = <<"info">>

\* C14: nothing runs unless the private key was decrypted: after a failed
\* decrypt the process has exited, with no network join, no tick, no timer,
\* and the cache file untouched from then on.
C14_NoKeyNoLoop ==
  /\ [](~passwdOK =>
          /\ pc \in {"init", "exited"}
          /\ join = "none"
          /\ ticks = <<>>
          /\ timers = {})
  /\ [][~passwdOK => cache' = cache]_vars

C14_Witness == ~passwdOK /\ pc = "exited" /\ config.telemetry

\* C15: with telemetry disabled no tick ever starts (no speed test, no
\* measurement, no delivery, no read of the cache file), no timer is ever
\* set and the cache file is never written.
C15_DisabledIsInert ==
  /\ [](~config.telemetry => ticks = <<>> /\ timers = {})
  /\ [][~config.telemetry => cache' = cache]_vars

C15_Witness ==
  /\ ~config.telemetry
  /\ pc = "running"
  /\ join = "done"
  /\ now > T0 + interval

\* C16: the capacity in the storage section of a delivered report is the
\* configured size in bytes: size * 1024^2 for MB, 1024^3 for GB, 1024^4
\* for TB.
C16_CapacityInBytes ==
  \A i \in DOMAIN ticks :
    ticks[i].sends > 0 =>
      ticks[i].report.free =
        Scaled(config.size,
               CASE config.unit = "MB" -> 2
                 [] config.unit = "GB" -> 3
                 [] config.unit = "TB" -> 4)

\* C18: after a successful speed test the cache file holds the new sample,
\* stamped with the time of the test, before the tick measures or sends;
\* and every later tick that starts less than 25 hours after that stamp runs
\* no speed test, whatever became of the reports in between.
C18_FreshAfterTest ==
  \A i \in DOMAIN ticks :
    ticks[i].test = "ok" =>
      /\ ticks[i].wrote
      /\ ticks[i].cache1 = ticks[i].bandwidth
      /\ ticks[i].cache1.kind = "sample"
      /\ ticks[i].cache1.timestamp >= ticks[i].start
      /\ [upload |-> ticks[i].cache1.upload,
          download |-> ticks[i].cache1.download] \in SpeedResults
      /\ ticks[i].walks = 1
      /\ \A j \in DOMAIN ticks :
           (j > i /\ ticks[j].start - ticks[i].cache1.timestamp < hours25) =>
             /\ ticks[j].tests = 0
             /\ ticks[j].cache0 = ticks[i].cache1

C18_Witness ==
  \E i, j \in DOMAIN ticks :
    /\ i < j
    /\ ticks[i].test = "ok"
    /\ ticks[i].send = "err"
    /\ ticks[j].start - ticks[i].cache1.timestamp = hours25 - 1
    /\ ticks[j].tests = 0
    /\ ticks[j].walks = 1

\* C19: at most one next-tick timer is pending at any time; each tick sets
\* at most one, the pending one was set by the latest tick, and while a
\* speed test is in flight none is pending.
C19_OneTimer ==
  /\ Cardinality(timers) <= 1
  /\ \A i \in DOMAIN ticks : ticks[i].scheduled <= 1
  /\ \A tm \in timers : tm.by = Len(ticks)
  /\ \A i \in DOMAIN ticks :
       /\ i < Len(ticks) => ticks[i].scheduled = 1
       /\ ticks[i].test = "inflight" => timers = {}

C19_Witness ==
  /\ Cardinality(timers) = 1
  /\ Len(ticks) >= 2
  /\ \E i, j \in DOMAIN ticks :
       i < j /\ ticks[i].walk = "inflight" /\ ticks[j].send = "inflight"

\* C20: every call of getDirectorySize calls its callback at most once, and
\* once all its fs.stat and fs.readdir have answered the measurement has
\* called back exactly once: on success, on a stat error, on a readdir
\* error, and when one or several children failed.
C20_CallbackOnce ==
  /\ \A n \in Nodes : call[n].cbs <= 1
  /\ \A n \in Nodes :
       (call[n].st = "returned" \/ call[n].fired) <=> call[n].cbs = 1
  /\ WalkQuiet =>
       /\ call[Root].cbs = 1
       /\ \A n \in Nodes : call[n].st # "idle" => call[n].cbs = 1
  /\ (call[Root].st # "idle" /\ ~WalkQuiet) => ENABLED NextWalk

C20_Witness ==
  /\ WalkQuiet
  /\ call[Root].cbs = 1
  /\ call[Root].err
  /\ call[2].cbs = 1 /\ call[2].err
  /\ call[3].cbs = 1 /\ call[3].err
  /\ call[4].cbs = 1 /\ call[4].err
  /\ call[5].cbs = 1 /\ call[5].err

\* In a tick the measurement is started at most once and the delivery
\* transport called at most once.
TickCallsOnce ==
  \A i \in DOMAIN ticks : ticks[i].walks <= 1 /\ ticks[i].sends <= 1

\* A string with no surrogate outside a pair, and a string with every such
\* surrogate replaced by U+FFFD.
RECURSIVE Scrub(_)
Scrub(str) ==
  IF str = <<>> THEN <<>>
  ELSE IF IsHigh(str[1]) /\ Len(str) >= 2 /\ IsLow(str[2])
  THEN <<str[1], str[2]>> \o Scrub(Tail(Tail(str)))
  ELSE IF IsHigh(str[1]) \/ IsLow(str[1])
  THEN <<65533>> \o Scrub(Tail(str))
  ELSE <<str[1]>> \o Scrub(Tail(str))
WellFormed(str) == Scrub(str) = str

\* C17 as stated: for every password P and every string S,
\* decrypt(P, encrypt(P, S)) returns exactly S.
C17_RoundTripAll ==
  (vault.pc = "opened" /\ vault.with = vault.password) =>
    ~vault.threw /\ vault.out = vault.plain

\* C17 amended: decrypt(P, encrypt(P, S)) never throws and returns S for
\* every S that holds no unpaired surrogate; an unpaired surrogate comes
\* back as U+FFFD.
C17_RoundTripWellFormed ==
  (vault.pc = "opened" /\ vault.with = vault.password) =>
    /\ ~vault.threw
    /\ vault.out = Scrub(vault.plain)
    /\ WellFormed(vault.plain) => vault.out = vault.plain

C17_Witness ==
  /\ vault.pc = "opened"
  /\ vault.with = vault.password
  /\ vault.plain = <<55357, 56832>>
  /\ vault.blob[1] = 0
  /\ vault.out = vault.plain

====
